---- MODULE Spec2Model ----
(***************************************************************************)
(* Prompt construction and response extraction of the Streamlit demo       *)
(* scripts (streamlit_aws_fishbone.py, 250511_streamlit_llm_fishborn.py,   *)
(* 250511_streamlit_llm_mail.py), their button handlers, and the Rocky     *)
(* simulation scripts (simulation_test.py, simulation_test2.py).           *)
(*                                                                         *)
(* A text is a sequence of lexemes.  The backtick, the newline, the space  *)
(* and "any other character" are single characters; the two words the      *)
(* code searches for, "dot" and "digraph Fishbone", are one lexeme each    *)
(* (neither can overlap itself or a fence, so searching for them lexeme by *)
(* lexeme is searching for them character by character).  The fence is     *)
(* three backtick characters, so runs of one, two, four ... backticks are  *)
(* texts of the model.  Python's None and a raised exception are tuples    *)
(* whose first lexeme occurs in no text.                                   *)
(***************************************************************************)
EXTENDS Integers, Sequences, FiniteSets, TLC

VARIABLES response, wrapped, epc, extracted, reextracted,
          task, fields, prompt, ppc,
          app, session_state, shown, llm_calls, latest_payload,
          entry, rpc, rocky, closed, project_has_drum, drum_geometry,
          api_calls, pending, printed, outcome, n_evals, objective_value,
          chat_app, messages, memory, search_url_history, settings,
          agent_executor, sent, urls_found_this_turn, chat_event, after_reset

extVars == <<response, wrapped, epc, extracted, reextracted>>
promptVars == <<task, fields, prompt, ppc>>
\* app: the script that runs; session_state: st.session_state; shown: the
\* messages the last button press put on the page; llm_calls: the number of
\* llm.invoke calls of the last button press; latest_payload: the payload of
\* the latest extraction that found one (history)
appVars == <<app, session_state, shown, llm_calls, latest_payload>>
\* entry: the simulation script that runs; rpc: the statement it is at;
\* rocky: the local variable rocky; closed: the number of rocky.close() calls
\* on the session of this invocation; project_has_drum: whether the project
\* holds an element named Drum; drum_geometry: the local variable;
\* api_calls: the Rocky operations this invocation has called; pending: the
\* exception in flight; printed: what this invocation has printed; outcome:
\* how the function ended (a value, or the exception it let through);
\* n_evals: the evaluations the optimizer has finished; objective_value: the
\* value objective_function returned last
rockyVars == <<entry, rpc, rocky, closed, project_has_drum, drum_geometry,
               api_calls, pending, printed, outcome, n_evals, objective_value>>
\* chat_app: the chat script that runs; messages: st.session_state.messages
\* as <<role, content>> pairs; memory: the messages of the LangChain
\* conversation memory; search_url_history: the session's list of that name;
\* settings: the sidebar widgets' values; agent_executor: the executor the
\* script holds (cached or in the session); sent: what the last chat turn
\* gave to the model; urls_found_this_turn: the local list of the last chat
\* turn; chat_event: what the user did last; after_reset: whether a reset
\* has discarded a conversation of at least one turn (history)
chatVars == <<chat_app, messages, memory, search_url_history, settings,
              agent_executor, sent, urls_found_this_turn, chat_event,
              after_reset>>
vars == <<response, wrapped, epc, extracted, reextracted,
          task, fields, prompt, ppc,
          app, session_state, shown, llm_calls, latest_payload,
          entry, rpc, rocky, closed, project_has_drum, drum_geometry,
          api_calls, pending, printed, outcome, n_evals, objective_value,
          chat_app, messages, memory, search_url_history, settings,
          agent_executor, sent, urls_found_this_turn, chat_event, after_reset>>

\* ------------------------------------------------------------ bounds
\* a response is the concatenation of at most MaxPieces pieces
MaxPieces == 5
\* a field value typed by the user has at most MaxField characters
MaxField == 2
\* a response given to a whole app has at most MaxAppPieces pieces
MaxAppPieces == 2
\* a simulation result differs from the target by at most MaxDeviation
MaxDeviation == 2
\* a conversation has at most MaxTurns chat turns between two resets
MaxTurns == 2
\* one chat turn finds at most MaxFound links in its search results
MaxFound == 2

\* ------------------------------------------------------------ lexemes
BT == "bt"
DOT == "dot"
DF == "DF"
NL == "nl"
SP == "sp"
CH == "x"

Fence == <<BT, BT, BT>>
TaggedFence == <<BT, BT, BT, DOT>>
Prefix == <<DF>>

None == <<"NoneType">>
IndexError == <<"raise", "IndexError">>
IsException(v) == Len(v) > 0 /\ v[1] = "raise"

\* ------------------------------------------------------------ str methods
\* str.find, 1-based; 0 when sub does not occur in s
Find(s, sub) ==
    LET hits == {i \in 1..(Len(s) - Len(sub) + 1) :
                    SubSeq(s, i, i + Len(sub) - 1) = sub}
    IN IF hits = {} THEN 0 ELSE CHOOSE i \in hits : \A j \in hits : i <= j

\* sub in s
Contains(s, sub) == Find(s, sub) # 0

\* s.split(sep): leftmost, non-overlapping occurrences of sep
RECURSIVE split(_, _)
split(s, sep) ==
    LET i == Find(s, sep)
    IN IF i = 0 THEN <<s>>
       ELSE <<SubSeq(s, 1, i - 1)>> \o split(SubSeq(s, i + Len(sep), Len(s)), sep)

isspace(c) == c \in {NL, SP}

\* s.strip(): leading and trailing whitespace removed
strip(s) ==
    LET keep == {i \in 1..Len(s) : ~isspace(s[i])}
    IN IF keep = {} THEN <<>>
       ELSE SubSeq(s, CHOOSE i \in keep : \A j \in keep : i <= j,
                      CHOOSE i \in keep : \A j \in keep : i >= j)

\* s.startswith(p)
startswith(s, p) == Len(s) >= Len(p) /\ SubSeq(s, 1, Len(p)) = p

\* list[i], 0-based as in the source; IndexError when out of range
Item(list, i) == IF i + 1 <= Len(list) THEN list[i + 1] ELSE IndexError

\* ------------------------------------------------------------ extractor
\* rule 1 (both scripts): content.split("```dot")[1].split("```")[0].strip()
tagged_block(response_content) ==
    LET part == Item(split(response_content, TaggedFence), 1)
    IN IF IsException(part) THEN part
       ELSE LET head == Item(split(part, Fence), 0)
            IN IF IsException(head) THEN head ELSE strip(head)

\* rule 2: the for loop over response_content.split("```")
first_block_with_prefix(response_content) ==
    LET code_blocks == split(response_content, Fence)
        hits == {i \in 1..Len(code_blocks) : Contains(code_blocks[i], Prefix)}
    IN IF hits = {} THEN None
       ELSE strip(code_blocks[CHOOSE i \in hits : \A j \in hits : i <= j])

extract_dot_code_fallback_raw(response_content) ==
    IF Contains(response_content, TaggedFence)
    THEN tagged_block(response_content)
    ELSE IF Contains(response_content, Fence) /\ Contains(response_content, Prefix)
    THEN first_block_with_prefix(response_content)
    ELSE strip(response_content)

extract_dot_code_rule3_after_prefix(response_content) ==
    IF Contains(response_content, TaggedFence)
    THEN tagged_block(response_content)
    ELSE IF Contains(response_content, Fence) /\ Contains(response_content, Prefix)
    THEN first_block_with_prefix(response_content)
    ELSE IF Contains(response_content, Prefix)
    THEN strip(Item(split(response_content, Prefix), 1))
    ELSE None

extract_dot_code_no_strip(response_content) ==
    IF Contains(response_content, TaggedFence)
    THEN Item(split(Item(split(response_content, TaggedFence), 1), Fence), 0)
    ELSE IF Contains(response_content, Fence) /\ Contains(response_content, Prefix)
    THEN first_block_with_prefix(response_content)
    ELSE IF Contains(response_content, Prefix)
    THEN strip(response_content)
    ELSE None

extract_dot_code(response_content) ==
    IF Contains(response_content, TaggedFence)
    THEN tagged_block(response_content)
    ELSE IF Contains(response_content, Fence) /\ Contains(response_content, Prefix)
    THEN first_block_with_prefix(response_content)
    ELSE IF Contains(response_content, Prefix)
    THEN strip(response_content)
    ELSE None

\* the inline extraction of the Gemini fishbone script; None stands for the
\* branch that reports the error and stops the run without storing dot_code
inline_dot_code(content) ==
    IF Contains(content, TaggedFence)
    THEN tagged_block(content)
    ELSE IF Contains(content, Prefix)
    THEN strip(content)
    ELSE None

\* the tagged fenced block create_modification_prompt puts the diagram in
fenced_wrapper(current_dot_code) ==
    TaggedFence \o <<NL>> \o current_dot_code \o <<NL>> \o Fence

\* ------------------------------------------------------------ responses
Pieces == {<<BT>>, Fence, <<DOT>>, Prefix, <<NL>>, <<CH>>}

RECURSIVE Texts(_)
Texts(n) ==
    IF n = 0 THEN {<<>>}
    ELSE LET shorter == Texts(n - 1)
         IN shorter \cup {t \o p : t \in shorter, p \in Pieces}

Responses == Texts(MaxPieces)

\* ------------------------------------------------------------ idle parts
ExtractIdle ==
    /\ response = <<>>
    /\ wrapped = None
    /\ epc = "idle"
    /\ extracted = None
    /\ reextracted = None

PromptIdle ==
    /\ task = "none"
    /\ fields = <<>>
    /\ prompt = None
    /\ ppc = "idle"

AppIdle ==
    /\ app = "none"
    /\ session_state = <<>>
    /\ shown = {}
    /\ llm_calls = 0
    /\ latest_payload = None

ChatIdle ==
    /\ chat_app = "none"
    /\ messages = <<>>
    /\ memory = <<>>
    /\ search_url_history = <<>>
    /\ settings = <<>>
    /\ agent_executor = None
    /\ sent = None
    /\ urls_found_this_turn = <<>>
    /\ chat_event = "none"
    /\ after_reset = FALSE

RockyIdle ==
    /\ entry = "none"
    /\ rpc = "idle"
    /\ rocky = None
    /\ closed = 0
    /\ project_has_drum = TRUE
    /\ drum_geometry = None
    /\ api_calls = {}
    /\ pending = None
    /\ printed = {}
    /\ outcome = None
    /\ n_evals = 0
    /\ objective_value = None

\* ------------------------------------------------------------ extraction runs
ExtractInit ==
    /\ response \in Responses
    /\ wrapped = None
    /\ epc = "raw"
    /\ extracted = None
    /\ reextracted = None
    /\ PromptIdle
    /\ AppIdle
    /\ RockyIdle
    /\ ChatIdle

\* the current diagram is put in the tagged fenced block of the
\* modification prompt
Wrap ==
    /\ epc = "raw"
    /\ ~Contains(response, Fence)
    /\ wrapped' = response
    /\ response' = fenced_wrapper(response)
    /\ epc' = "wrapped"
    /\ UNCHANGED <<extracted, reextracted>>
    /\ UNCHANGED promptVars
    /\ UNCHANGED <<appVars, rockyVars, chatVars>>

\* dot_code_extracted = extract_dot_code(response.content)
ExtractDot ==
    /\ epc \in {"raw", "wrapped"}
    /\ extracted' = extract_dot_code(response)
    /\ epc' = "extracted"
    /\ UNCHANGED <<response, wrapped, reextracted>>
    /\ UNCHANGED promptVars
    /\ UNCHANGED <<appVars, rockyVars, chatVars>>

\* the Gemini script's inline extraction of response.content
ExtractInline ==
    /\ epc = "raw"
    /\ extracted' = inline_dot_code(response)
    /\ epc' = "inline"
    /\ UNCHANGED <<response, wrapped, reextracted>>
    /\ UNCHANGED promptVars
    /\ UNCHANGED <<appVars, rockyVars, chatVars>>

\* a payload the extractor returned is given to the extractor again
ReExtract ==
    /\ epc = "extracted"
    /\ extracted # None
    /\ ~IsException(extracted)
    /\ reextracted' = extract_dot_code(extracted)
    /\ epc' = "reextracted"
    /\ UNCHANGED <<response, wrapped, extracted>>
    /\ UNCHANGED promptVars
    /\ UNCHANGED <<appVars, rockyVars, chatVars>>

ExtractNext == Wrap \/ ExtractDot \/ ExtractInline \/ ReExtract

SpecExtract == ExtractInit /\ [][ExtractNext]_vars

\* ------------------------------------------------------------ prompt builders
\* what an f-string puts in place of {value}: the string itself, and the
\* four characters None for Python's None
format_value(value) == IF value = None THEN <<"N", "o", "n", "e">> ELSE value

MissingFieldError(field) == <<"raise", "MissingFieldError", field>>

\* the DOT skeleton both create_fishbone_prompt templates show:
\* an opening tagged fence, the graph with the failure mode as label,
\* comment lines, the closing brace; the template has no closing fence
dot_example(failure_mode) ==
    <<"DOT_example", NL>>
    \o TaggedFence \o <<NL>>
    \o <<DF, SP, "{", NL>>
    \o <<SP, "rankdir", NL, SP, "node", NL, SP, "edge", NL, NL>>
    \o <<SP, "//failure_mode", NL>>
    \o <<SP, "FailureMode_label">> \o format_value(failure_mode)
    \o <<"ellipse", NL, NL>>
    \o <<SP, "//major_categories", NL, NL>>
    \o <<SP, "//connections", NL, NL>>
    \o <<SP, "//factors", NL, NL>>
    \o <<SP, "//node_ids", NL>>
    \o <<"}", NL, NL>>

closing_lines_directive_not_last(product_name, failure_mode) ==
    <<"with_reference_product">> \o format_value(product_name)
    \o <<"failure">> \o format_value(failure_mode)
    \o <<"generate_dot_code", NL>>
    \o <<"output_is", SP, DF, SP, "{", SP, "...", SP, "}", SP,
         "only_dot_code_starting_so", NL>>
    \o <<"label_must_be">> \o format_value(failure_mode)
    \o <<"set_others", NL>>

\* the three closing lines of both create_fishbone_prompt templates
closing_lines(product_name, failure_mode) ==
    <<"with_reference_product">> \o format_value(product_name)
    \o <<"failure">> \o format_value(failure_mode)
    \o <<"generate_dot_code", NL>>
    \o <<"label_must_be">> \o format_value(failure_mode)
    \o <<"set_others", NL>>
    \o <<"output_is", SP, DF, SP, "{", SP, "...", SP, "}", SP,
         "only_dot_code_starting_so", NL>>

create_fishbone_prompt_wrong_field(product_name, failure_mode) ==
    <<NL>>
    \o <<"product">> \o format_value(failure_mode)
    \o <<"failure_mode">> \o format_value(failure_mode)
    \o <<"describe_in_dot", NL, NL>>
    \o <<"first_for_failure_mode">> \o format_value(failure_mode)
    \o <<"categories_process_view", NL>>
    \o <<"then_factors", NL, NL>>
    \o <<"only_dot_code", NL, NL>>
    \o dot_example(failure_mode)
    \o closing_lines(failure_mode, failure_mode)

create_fishbone_prompt(product_name, failure_mode) ==
    <<NL>>
    \o <<"product">> \o format_value(product_name)
    \o <<"failure_mode">> \o format_value(failure_mode)
    \o <<"describe_in_dot", NL, NL>>
    \o <<"first_for_failure_mode">> \o format_value(failure_mode)
    \o <<"categories_process_view", NL>>
    \o <<"then_factors", NL, NL>>
    \o <<"only_dot_code", NL, NL>>
    \o dot_example(failure_mode)
    \o closing_lines(product_name, failure_mode)

\* create_fishbone_prompt of 250511_streamlit_llm_fishborn.py
llm_fishborn_create_fishbone_prompt(product_name, failure_mode) ==
    <<NL>>
    \o <<"product">> \o format_value(product_name)
    \o <<"failure_mode">> \o format_value(failure_mode)
    \o <<"describe_in_dot", NL, NL>>
    \o <<"first_for_failure_mode">> \o format_value(failure_mode)
    \o <<"categories_general_view", NL>>
    \o <<"then_factors", NL, NL>>
    \o <<"only_dot_code", NL, NL>>
    \o dot_example(failure_mode)
    \o closing_lines(product_name, failure_mode)

create_modification_prompt_checked(current_dot_code, modification_request) ==
    IF current_dot_code \in {<<>>, None}
    THEN MissingFieldError("current_dot_code")
    ELSE IF modification_request \in {<<>>, None}
    THEN MissingFieldError("modification_request")
    ELSE <<NL>>
         \o <<"you_are_dot_assistant", NL>>
         \o <<"existing_diagram_below", NL, NL>>
         \o <<"[existing_DOT_code]", NL>>
         \o fenced_wrapper(format_value(current_dot_code)) \o <<NL, NL>>
         \o <<"modify_as_instructed", NL, NL>>
         \o <<"[instruction]", NL>>
         \o format_value(modification_request) \o <<NL, NL>>
         \o <<"output_only_modified_dot_code", NL>>
         \o <<DF, SP, "{", SP, "...", SP, "}", SP,
              "only_dot_code_starting_so", NL>>
         \o <<"keep_structure_and_style", NL>>
         \o <<"if_ambiguous_best_reading", NL>>

create_modification_prompt(current_dot_code, modification_request) ==
    <<NL>>
    \o <<"you_are_dot_assistant", NL>>
    \o <<"existing_diagram_below", NL, NL>>
    \o <<"[existing_DOT_code]", NL>>
    \o fenced_wrapper(format_value(current_dot_code)) \o <<NL, NL>>
    \o <<"modify_as_instructed", NL, NL>>
    \o <<"[instruction]", NL>>
    \o format_value(modification_request) \o <<NL, NL>>
    \o <<"output_only_modified_dot_code", NL>>
    \o <<DF, SP, "{", SP, "...", SP, "}", SP,
         "only_dot_code_starting_so", NL>>
    \o <<"keep_structure_and_style", NL>>
    \o <<"if_ambiguous_best_reading", NL>>

create_reply_prompt_with_dynamic_address(original_email_text) ==
    <<"you_received_the_mail", NL, NL>>
    \o <<"task", NL>>
    \o <<"1_identify_sender", NL>>
    \o <<"2_address_line", NL>>
    \o <<SP, SP, SP, SP, BT, "{", "company", "}", "{", "name", "}", "sama",
         BT, NL>>
    \o <<SP, SP, SP, SP, "if_unknown_XXXX", NL>>
    \o <<"3_fixed_greeting", NL>>
    \o <<SP, SP, SP, SP>> \o Fence \o <<NL>>
    \o <<SP, SP, SP, SP, "greeting_1", NL>>
    \o <<SP, SP, SP, SP, "greeting_2", NL>>
    \o <<SP, SP, SP, SP>> \o Fence \o <<NL>>
    \o <<"4_reply_body", NL>>
    \o <<"5_closing_and_signature", NL, NL>>
    \o <<"output_whole_reply", NL, NL>>
    \o <<"original_mail:", NL>>
    \o <<"---", NL>>
    \o format_value(original_email_text) \o <<NL>>
    \o <<"---", NL, NL>>
    \o <<"whole_reply:", NL>>

\* ------------------------------------------------------------ prompt runs
FieldChars == {"a", "b"}

RECURSIVE FieldTexts(_)
FieldTexts(n) ==
    IF n = 0 THEN {<<>>}
    ELSE LET shorter == FieldTexts(n - 1)
         IN shorter \cup {t \o <<c>> : t \in shorter, c \in FieldChars}

FieldValues == FieldTexts(MaxField) \cup {None}

Tasks == {"generate", "generate_gemini", "modify", "reply"}

RequiredFields(t) ==
    IF t \in {"generate", "generate_gemini"} THEN {"product_name", "failure_mode"}
    ELSE IF t = "modify" THEN {"current_dot_code", "modification_request"}
    ELSE {"original_email_text"}

PromptInit ==
    /\ task \in Tasks
    /\ fields \in [RequiredFields(task) -> FieldValues]
    /\ prompt = None
    /\ ppc = "ready"
    /\ ExtractIdle
    /\ AppIdle
    /\ RockyIdle
    /\ ChatIdle

BuildFishbone ==
    /\ ppc = "ready"
    /\ task = "generate"
    /\ prompt' = create_fishbone_prompt(fields.product_name, fields.failure_mode)
    /\ ppc' = "built"
    /\ UNCHANGED <<task, fields>>
    /\ UNCHANGED extVars
    /\ UNCHANGED <<appVars, rockyVars, chatVars>>

BuildFishboneGemini ==
    /\ ppc = "ready"
    /\ task = "generate_gemini"
    /\ prompt' = llm_fishborn_create_fishbone_prompt(fields.product_name,
                                                      fields.failure_mode)
    /\ ppc' = "built"
    /\ UNCHANGED <<task, fields>>
    /\ UNCHANGED extVars
    /\ UNCHANGED <<appVars, rockyVars, chatVars>>

BuildModification ==
    /\ ppc = "ready"
    /\ task = "modify"
    /\ prompt' = create_modification_prompt(fields.current_dot_code,
                                             fields.modification_request)
    /\ ppc' = "built"
    /\ UNCHANGED <<task, fields>>
    /\ UNCHANGED extVars
    /\ UNCHANGED <<appVars, rockyVars, chatVars>>

BuildReply ==
    /\ ppc = "ready"
    /\ task = "reply"
    /\ prompt' = create_reply_prompt_with_dynamic_address(fields.original_email_text)
    /\ ppc' = "built"
    /\ UNCHANGED <<task, fields>>
    /\ UNCHANGED extVars
    /\ UNCHANGED <<appVars, rockyVars, chatVars>>

PromptNext == BuildFishbone \/ BuildFishboneGemini \/ BuildModification \/ BuildReply

SpecPrompt == PromptInit /\ [][PromptNext]_vars

\* ------------------------------------------------------------ the apps
\* a response of the model is the concatenation of at most MaxAppPieces
\* pieces when a whole app runs on it: the two fences, the prefix, and a
\* line break followed by another character
AppPieces == {TaggedFence, Fence, Prefix, <<NL, CH>>}

RECURSIVE AppTexts(_)
AppTexts(n) ==
    IF n = 0 THEN {<<>>}
    ELSE LET shorter == AppTexts(n - 1)
         IN shorter \cup {t \o p : t \in shorter, p \in AppPieces}

AppResponses == AppTexts(MaxAppPieces)

\* what llm.invoke gives: a response with a content text, a response object
\* without a content attribute, or a raised exception
NoContent == <<"no_content">>
LLMError == <<"raise", "Exception">>
Outcomes == AppResponses \cup {NoContent, LLMError}
hasattr_content(llm_response) == llm_response # NoContent

\* a key that was never stored in st.session_state
Unset == <<"unset">>

\* the fixed reply the mail script stores when the generation raised
ErrorSentinel == <<"could_not_generate_reply">>

\* Python truth of a text, of None, of a missing key
truthy(v) == v \notin {<<>>, None, Unset}

\* what the user can have typed in a text input
AppFieldValues == {<<>>, <<"a">>}

initial_session(script) ==
    IF script = "aws"
    THEN [dot_code |-> None, product_name_display |-> <<>>,
          failure_mode_display |-> <<>>, reply_email_output |-> Unset]
    ELSE [dot_code |-> Unset, product_name_display |-> Unset,
          failure_mode_display |-> Unset, reply_email_output |-> Unset]

\* a button that was not given to the LLM at all
NotCalled(session, warnings) ==
    [session |-> session, prompt |-> None, response |-> None,
     extracted |-> None, shown |-> warnings, llm_calls |-> 0]

\* streamlit_aws_fishbone.py, the try block of the generate button
generate_try(session, product_name, failure_mode, llm_response) ==
    IF IsException(llm_response)
    THEN [session |-> [session EXCEPT !.dot_code = None],
          prompt |-> create_fishbone_prompt(product_name, failure_mode),
          response |-> llm_response, extracted |-> None,
          shown |-> {"error_generation_failed"}, llm_calls |-> 1]
    ELSE LET dot_code_extracted ==
                 IF hasattr_content(llm_response)
                 THEN extract_dot_code(llm_response) ELSE <<>>
             dot_code == IF truthy(dot_code_extracted)
                         THEN dot_code_extracted ELSE None
             warned == truthy(dot_code) /\ ~startswith(dot_code, Prefix)
         IN [session |-> [session EXCEPT
                              !.dot_code = dot_code,
                              !.product_name_display = product_name,
                              !.failure_mode_display = failure_mode],
             prompt |-> create_fishbone_prompt(product_name, failure_mode),
             response |-> llm_response,
             extracted |-> dot_code_extracted,
             shown |-> (IF ~hasattr_content(llm_response)
                        THEN {"error_response_format"}
                        ELSE IF ~truthy(dot_code_extracted)
                        THEN {"error_no_dot_code"} ELSE {})
                       \cup (IF warned THEN {"warning_format"} ELSE {})
                       \cup (IF truthy(dot_code) THEN {"success"} ELSE {}),
             llm_calls |-> 1]

generate_button_retry(session, product_name, failure_mode, llm_response) ==
    IF ~(truthy(product_name) /\ truthy(failure_mode))
    THEN NotCalled(session, {"warning_enter_both_fields"})
    ELSE LET r == generate_try(session, product_name, failure_mode, llm_response)
         IN IF truthy(r.session.dot_code) THEN r ELSE [r EXCEPT !.llm_calls = 2]

generate_button_either_field(session, product_name, failure_mode, llm_response) ==
    IF ~(truthy(product_name) \/ truthy(failure_mode))
    THEN NotCalled(session, {"warning_enter_both_fields"})
    ELSE generate_try(session, product_name, failure_mode, llm_response)

generate_button_hard_fail(session, product_name, failure_mode, llm_response) ==
    IF ~(truthy(product_name) /\ truthy(failure_mode))
    THEN NotCalled(session, {"warning_enter_both_fields"})
    ELSE LET r == generate_try(session, product_name, failure_mode, llm_response)
         IN IF "warning_format" \in r.shown
            THEN [r EXCEPT !.session.dot_code = None, !.shown = {"error_no_dot_code"}]
            ELSE r

generate_button_keeps_diagram(session, product_name, failure_mode, llm_response) ==
    IF ~(truthy(product_name) /\ truthy(failure_mode))
    THEN NotCalled(session, {"warning_enter_both_fields"})
    ELSE LET r == generate_try(session, product_name, failure_mode, llm_response)
         IN IF r.session.dot_code = None
            THEN [r EXCEPT !.session.dot_code = session.dot_code]
            ELSE r

\* streamlit_aws_fishbone.py, the generate button
generate_button(session, product_name, failure_mode, llm_response) ==
    IF ~(truthy(product_name) /\ truthy(failure_mode))
    THEN NotCalled(session, {"warning_enter_both_fields"})
    ELSE generate_try(session, product_name, failure_mode, llm_response)

modification_offered_always(session) == TRUE

\* streamlit_aws_fishbone.py: the modification form is on the page when
\* the stored diagram is truthy (and the chart was drawn without error)
modification_offered(session) == truthy(session.dot_code)

\* streamlit_aws_fishbone.py, the apply-modification button; st.rerun()
\* ends the run at once (its exception is no Exception, so neither except
\* clause takes it), and the lines after it are not run
apply_modification(session, modification_request, llm_response) ==
    IF ~truthy(modification_request)
    THEN NotCalled(session, {"warning_enter_modification"})
    ELSE IF IsException(llm_response)
    THEN [session |-> session,
          prompt |-> create_modification_prompt(session.dot_code,
                                                modification_request),
          response |-> llm_response, extracted |-> None,
          shown |-> {"error_modification_failed"}, llm_calls |-> 1]
    ELSE LET modified_dot_code ==
                 IF hasattr_content(llm_response)
                 THEN extract_dot_code(llm_response) ELSE <<>>
             rerun == hasattr_content(llm_response) /\ truthy(modified_dot_code)
         IN [session |-> IF rerun
                         THEN [session EXCEPT !.dot_code = modified_dot_code]
                         ELSE session,
             prompt |-> create_modification_prompt(session.dot_code,
                                                   modification_request),
             response |-> llm_response,
             extracted |-> modified_dot_code,
             shown |-> IF ~hasattr_content(llm_response)
                       THEN {"error_response_format"}
                       ELSE IF ~truthy(modified_dot_code)
                       THEN {"error_no_dot_code"}
                       ELSE IF rerun
                       THEN {"success_modified", "st.rerun"}
                       ELSE IF ~startswith(modified_dot_code, Prefix)
                       THEN {"warning_modified_format"}
                       ELSE {},
             llm_calls |-> 1]

\* 250511_streamlit_llm_fishborn.py, the generate button; st.stop() ends
\* the run at once and leaves the session as it was
llm_fishborn_generate_button(session, product_name, failure_mode, llm_response) ==
    IF ~(truthy(product_name) /\ truthy(failure_mode))
    THEN NotCalled(session, {"warning_enter_both_fields"})
    ELSE IF IsException(llm_response)
    THEN [session |-> [session EXCEPT !.dot_code = None],
          prompt |-> llm_fishborn_create_fishbone_prompt(product_name,
                                                         failure_mode),
          response |-> llm_response, extracted |-> None,
          shown |-> {"error_generation_failed"}, llm_calls |-> 1]
    ELSE LET dot_code == IF hasattr_content(llm_response)
                         THEN inline_dot_code(llm_response) ELSE None
         IN [session |-> IF dot_code = None THEN session
                         ELSE [session EXCEPT
                                  !.dot_code = dot_code,
                                  !.product_name_display = product_name,
                                  !.failure_mode_display = failure_mode],
             prompt |-> llm_fishborn_create_fishbone_prompt(product_name,
                                                            failure_mode),
             response |-> llm_response,
             extracted |-> dot_code,
             shown |-> IF ~hasattr_content(llm_response)
                       THEN {"error_response_format", "st.stop"}
                       ELSE IF dot_code = None
                       THEN {"error_no_dot_code", "st.stop"}
                       ELSE IF ~startswith(dot_code, Prefix)
                       THEN {"warning_format"} ELSE {},
             llm_calls |-> 1]

\* 250511_streamlit_llm_mail.py, the create-reply button
reply_button(session, original_email, llm_response) ==
    IF ~truthy(original_email)
    THEN [NotCalled([session EXCEPT !.reply_email_output = <<>>],
                    {"warning_paste_mail"}) EXCEPT !.extracted = None]
    ELSE IF IsException(llm_response)
    THEN [session |-> [session EXCEPT !.reply_email_output = ErrorSentinel],
          prompt |-> create_reply_prompt_with_dynamic_address(original_email),
          response |-> llm_response, extracted |-> None,
          shown |-> {"error_reply_failed"}, llm_calls |-> 1]
    ELSE LET full_reply_email ==
                 IF hasattr_content(llm_response) THEN strip(llm_response)
                 ELSE <<"str(llm_response)">>
         IN [session |-> [session EXCEPT
                              !.reply_email_output = full_reply_email],
             prompt |-> create_reply_prompt_with_dynamic_address(original_email),
             response |-> llm_response, extracted |-> None,
             shown |-> {}, llm_calls |-> 1]

copy_offered_when_nonempty(session) ==
    truthy(session.reply_email_output)

\* 250511_streamlit_llm_mail.py, lines 95 and 104: whether the page shows the
\* copy button (a reply never stored reads as the empty string)
copy_offered(session) ==
    /\ truthy(session.reply_email_output)
    /\ session.reply_email_output # ErrorSentinel

\* the reply column, drawn after the handler r has run
reply_display(r) ==
    [r EXCEPT !.shown = IF copy_offered(r.session)
                        THEN r.shown \cup {"copy_reply_btn"}
                        ELSE r.shown]

AppInit ==
    /\ app \in {"aws", "gemini", "mail"}
    /\ session_state = initial_session(app)
    /\ shown = {}
    /\ llm_calls = 0
    /\ latest_payload = None
    /\ task = "none"
    /\ fields = <<>>
    /\ prompt = None
    /\ ppc = "idle"
    /\ response = None
    /\ wrapped = None
    /\ epc = "idle"
    /\ extracted = None
    /\ reextracted = None
    /\ RockyIdle
    /\ ChatIdle

\* the state after a button's handler with result r has run
Settle(r) ==
    /\ session_state' = r.session
    /\ prompt' = r.prompt
    /\ response' = r.response
    /\ extracted' = r.extracted
    /\ shown' = r.shown
    /\ llm_calls' = r.llm_calls
    /\ latest_payload' = IF truthy(r.extracted) THEN r.extracted
                         ELSE latest_payload
    /\ UNCHANGED <<app, ppc, wrapped, epc, reextracted, rockyVars, chatVars>>

GenerateButton ==
    /\ app = "aws"
    /\ \E product_name \in AppFieldValues, failure_mode \in AppFieldValues,
          llm_response \in Outcomes :
          /\ task' = "generate"
          /\ fields' = [product_name |-> product_name,
                        failure_mode |-> failure_mode]
          /\ Settle(generate_button(session_state, product_name,
                                    failure_mode, llm_response))

ApplyModification ==
    /\ app = "aws"
    /\ modification_offered(session_state)
    /\ \E modification_request \in AppFieldValues, llm_response \in Outcomes :
          /\ task' = "modify"
          /\ fields' = [current_dot_code |-> session_state.dot_code,
                        modification_request |-> modification_request]
          /\ Settle(apply_modification(session_state, modification_request,
                                       llm_response))

GeminiGenerateButton ==
    /\ app = "gemini"
    /\ \E product_name \in AppFieldValues, failure_mode \in AppFieldValues,
          llm_response \in Outcomes :
          /\ task' = "generate_gemini"
          /\ fields' = [product_name |-> product_name,
                        failure_mode |-> failure_mode]
          /\ Settle(llm_fishborn_generate_button(session_state, product_name,
                                                 failure_mode, llm_response))

ReplyButton ==
    /\ app = "mail"
    /\ \E original_email \in AppFieldValues, llm_response \in Outcomes :
          /\ task' = "reply"
          /\ fields' = [original_email_text |-> original_email]
          /\ Settle(reply_display(reply_button(session_state, original_email,
                                                llm_response)))

AppNext == GenerateButton \/ ApplyModification \/ GeminiGenerateButton \/ ReplyButton

SpecApp == AppInit /\ [][AppNext]_vars

\* ------------------------------------------------------------ simulation scripts
\* simulation_test.py (main) and simulation_test2.py (objective_function,
\* run_rocky_simulation_and_get_result and the gp_minimize loop), statement
\* by statement.  Every Rocky operation either returns or raises.

EXPERIMENTAL_TARGET_VALUE == 35
n_calls == 20
\* the float 1e10 as <<mantissa, exponent>>
penalty == <<1, 10>>

\* the object launch_rocky returns, and the geometry GetElement returns
Session == <<"RockyClient">>
Drum == <<"Drum">>
\* an exception raised by a Rocky operation
ApiError == <<"raise", "Exception", "rocky">>
DrumNotFound == <<"raise", "RuntimeError", "Geometry named 'Drum' not found">>
\* a function that ended without a return statement
ReturnedNone == <<"return", None>>

SimulationResults ==
    (EXPERIMENTAL_TARGET_VALUE - MaxDeviation)
        ..(EXPERIMENTAL_TARGET_VALUE + MaxDeviation)

\* the statement that follows pc when pc raised nothing
next_statement(script, pc) ==
    IF script = "simulation_test"
    THEN CASE pc = "launch" -> "open"
           [] pc = "open" -> "get_drum"
           [] pc = "get_drum" -> "set_value"
           [] pc = "set_value" -> "save"
           [] pc = "save" -> "simulate"
           [] pc = "simulate" -> "extract"
           [] pc = "extract" -> "finally"
    ELSE CASE pc = "launch" -> "open"
           [] pc = "open" -> "set_value"
           [] pc = "set_value" -> "simulate"
           [] pc = "simulate" -> "extract"
           [] pc = "extract" -> "finally"

on_raise_propagates(script) == "finally"

\* where an exception raised in the try block goes: main has an except
\* clause, run_rocky_simulation_and_get_result has only finally
on_raise(script) ==
    IF script = "simulation_test" THEN "except" ELSE "finally"

close_in_finally_skipped(session) == FALSE

\* if rocky: rocky.close()
close_in_finally(session) == truthy(session)

squared_error(simulation_result) ==
    <<(simulation_result - EXPERIMENTAL_TARGET_VALUE)
          * (simulation_result - EXPERIMENTAL_TARGET_VALUE), 0>>

objective_function_propagates(result) ==
    IF IsException(result) THEN result
    ELSE <<"return", squared_error(result[2])>>

\* objective_function, given how run_rocky_simulation_and_get_result ended
objective_function(result) ==
    IF IsException(result) THEN <<"return", penalty>>
    ELSE <<"return", squared_error(result[2])>>

RockyInit ==
    /\ entry \in {"simulation_test", "simulation_test2"}
    /\ rpc = "launch"
    /\ rocky = None
    /\ closed = 0
    /\ project_has_drum \in (IF entry = "simulation_test" THEN BOOLEAN
                             ELSE {TRUE})
    /\ drum_geometry = None
    /\ api_calls = {}
    /\ pending = None
    /\ printed = {}
    /\ outcome = None
    /\ n_evals = 0
    /\ objective_value = None
    /\ ExtractIdle
    /\ PromptIdle
    /\ AppIdle
    /\ ChatIdle

\* the operation op at statement pc returns, or raises
ApiStep(pc, op) ==
    /\ rpc = pc
    /\ api_calls' = api_calls \cup {op}
    /\ \/ /\ rpc' = next_statement(entry, pc)
          /\ UNCHANGED pending
       \/ /\ rpc' = on_raise(entry)
          /\ pending' = ApiError

LaunchRocky ==
    /\ rpc = "launch"
    /\ api_calls' = api_calls \cup {"launch_rocky"}
    /\ \/ /\ rocky' = Session
          /\ rpc' = next_statement(entry, "launch")
          /\ UNCHANGED pending
       \/ /\ rpc' = on_raise(entry)
          /\ pending' = ApiError
          /\ UNCHANGED rocky
    /\ UNCHANGED <<entry, closed, project_has_drum, drum_geometry, printed,
                   outcome, n_evals, objective_value>>
    /\ UNCHANGED <<extVars, promptVars, appVars, chatVars>>

OpenProject ==
    /\ ApiStep("open", "OpenProject")
    /\ UNCHANGED <<entry, rocky, closed, project_has_drum, drum_geometry,
                   printed, outcome, n_evals, objective_value>>
    /\ UNCHANGED <<extVars, promptVars, appVars, chatVars>>

\* main, lines 48-54: GetStudy, GetElement("Drum") and the check of what
\* it returned
GetElementDrum ==
    /\ entry = "simulation_test"
    /\ rpc = "get_drum"
    /\ api_calls' = api_calls \cup {"GetElement"}
    /\ \/ /\ pending' = ApiError
          /\ rpc' = on_raise(entry)
          /\ UNCHANGED drum_geometry
       \/ /\ drum_geometry' = IF project_has_drum THEN Drum ELSE None
          /\ IF ~truthy(drum_geometry')
             THEN /\ pending' = DrumNotFound
                  /\ rpc' = on_raise(entry)
             ELSE /\ rpc' = next_statement(entry, "get_drum")
                  /\ UNCHANGED pending
    /\ UNCHANGED <<entry, rocky, closed, project_has_drum, printed, outcome,
                   n_evals, objective_value>>
    /\ UNCHANGED <<extVars, promptVars, appVars, chatVars>>

\* GetProperty(...).SetValue(...): the chain can raise before SetValue is
\* called
SetValue ==
    /\ rpc = "set_value"
    /\ \/ /\ api_calls' = api_calls \cup {"SetValue"}
          /\ rpc' = next_statement(entry, "set_value")
          /\ UNCHANGED pending
       \/ /\ \E called \in BOOLEAN :
                api_calls' = IF called THEN api_calls \cup {"SetValue"}
                             ELSE api_calls
          /\ rpc' = on_raise(entry)
          /\ pending' = ApiError
    /\ UNCHANGED <<entry, rocky, closed, project_has_drum, drum_geometry,
                   printed, outcome, n_evals, objective_value>>
    /\ UNCHANGED <<extVars, promptVars, appVars, chatVars>>

SaveProject ==
    /\ entry = "simulation_test"
    /\ ApiStep("save", "SaveProject")
    /\ UNCHANGED <<entry, rocky, closed, project_has_drum, drum_geometry,
                   printed, outcome, n_evals, objective_value>>
    /\ UNCHANGED <<extVars, promptVars, appVars, chatVars>>

StartSimulation ==
    /\ ApiStep("simulate", "StartSimulation")
    /\ UNCHANGED <<entry, rocky, closed, project_has_drum, drum_geometry,
                   printed, outcome, n_evals, objective_value>>
    /\ UNCHANGED <<extVars, promptVars, appVars, chatVars>>

\* the result extraction: main prints the results, and
\* run_rocky_simulation_and_get_result returns the value
GetCurve ==
    /\ rpc = "extract"
    /\ api_calls' = api_calls \cup {"GetCurve"}
    /\ \/ /\ rpc' = next_statement(entry, "extract")
          /\ IF entry = "simulation_test"
             THEN /\ printed' = printed \cup {<<"results">>}
                  /\ UNCHANGED outcome
             ELSE /\ \E result_value \in SimulationResults :
                        outcome' = <<"return", result_value>>
                  /\ UNCHANGED printed
          /\ UNCHANGED pending
       \/ /\ rpc' = on_raise(entry)
          /\ pending' = ApiError
          /\ UNCHANGED <<printed, outcome>>
    /\ UNCHANGED <<entry, rocky, closed, project_has_drum, drum_geometry,
                   n_evals, objective_value>>
    /\ UNCHANGED <<extVars, promptVars, appVars, chatVars>>

\* main, lines 96-97
ExceptHandler ==
    /\ rpc = "except"
    /\ printed' = printed \cup {<<"An error occurred", pending>>}
    /\ pending' = None
    /\ rpc' = "finally"
    /\ UNCHANGED <<entry, rocky, closed, project_has_drum, drum_geometry,
                   api_calls, outcome, n_evals, objective_value>>
    /\ UNCHANGED <<extVars, promptVars, appVars, chatVars>>

\* the finally clause, and the end of the function: an exception still in
\* flight leaves the function
FinallyClose ==
    /\ rpc = "finally"
    /\ closed' = IF close_in_finally(rocky) THEN closed + 1 ELSE closed
    /\ outcome' = IF pending # None THEN pending
                  ELSE IF outcome = None THEN ReturnedNone
                  ELSE outcome
    /\ pending' = None
    /\ rpc' = IF entry = "simulation_test" THEN "done" ELSE "returned"
    /\ UNCHANGED <<entry, rocky, project_has_drum, drum_geometry, api_calls,
                   printed, n_evals, objective_value>>
    /\ UNCHANGED <<extVars, promptVars, appVars, chatVars>>

\* objective_function, lines 46-65, once the simulation function has ended;
\* an exception it lets through ends gp_minimize
ObjectiveReturn ==
    /\ rpc = "returned"
    /\ objective_value' = objective_function(outcome)
    /\ printed' = IF IsException(outcome)
                  THEN {<<"Rocky Simulation Failed", outcome>>}
                  ELSE {<<"Iteration End">>}
    /\ n_evals' = n_evals + 1
    /\ rpc' = IF IsException(objective_value') THEN "aborted"
              ELSE "evaluated"
    /\ UNCHANGED <<entry, rocky, closed, project_has_drum, drum_geometry,
                   api_calls, pending, outcome>>
    /\ UNCHANGED <<extVars, promptVars, appVars, chatVars>>

\* gp_minimize: the next of the n_calls evaluations starts, or the loop ends
NextEvaluation ==
    /\ rpc = "evaluated"
    /\ IF n_evals = n_calls
       THEN /\ rpc' = "done"
            /\ UNCHANGED <<rocky, closed, api_calls, outcome, printed>>
       ELSE /\ rpc' = "launch"
            /\ rocky' = None
            /\ closed' = 0
            /\ api_calls' = {}
            /\ outcome' = None
            /\ printed' = {}
    /\ UNCHANGED <<entry, project_has_drum, drum_geometry, pending, n_evals,
                   objective_value>>
    /\ UNCHANGED <<extVars, promptVars, appVars, chatVars>>

RockyNext ==
    \/ LaunchRocky
    \/ OpenProject
    \/ GetElementDrum
    \/ SetValue
    \/ SaveProject
    \/ StartSimulation
    \/ GetCurve
    \/ ExceptHandler
    \/ FinallyClose
    \/ ObjectiveReturn
    \/ NextEvaluation

SpecRocky == RockyInit /\ [][RockyNext]_vars

\* ------------------------------------------------------------ chat apps
\* 250601_streamlit_chat_app_aws.py, 250602_streamlit_chat_app_aws_choose.py,
\* streamlit_aws_search.py and streamlit_aws_search_claude.py: one action per
\* script run that the user starts (a chat input, the reset button, a changed
\* sidebar widget), the st.rerun() it ends with included.

ChatApps == {"chat_app_aws", "chat_app_aws_choose", "aws_search",
             "aws_search_claude"}
\* the two scripts that run an agent executor with a conversation memory
AgentApps == {"chat_app_aws_choose", "aws_search"}

UserPrompts == {"p", "q"}
\* what the model call gives: an output text, a result without the output
\* key, or an exception
ChatResults == {<<"output", "r">>, <<"no_output">>, LLMError}
\* the text used when the result has no output key
DefaultAnswer == "no_response_obtained"
\* the text put in the history when the turn failed
ErrorText == "error_occurred"

Models == {"sonnet", "haiku"}
\* the sidebar values a script reads; a script without the widget has one
\* value only
SettingsOf(script) ==
    CASE script = "chat_app_aws" ->
             {[model |-> "sonnet", use_search |-> FALSE]}
      [] script = "aws_search_claude" ->
             [model : Models, use_search : {FALSE}]
      [] script \in AgentApps ->
             [model : Models, use_search : BOOLEAN]
DefaultSettings(script) ==
    [model |-> "sonnet", use_search |-> script \in AgentApps]

Urls == {"u1", "u2"}
RECURSIVE FoundLists(_)
FoundLists(n) ==
    IF n = 0 THEN {<<>>}
    ELSE FoundLists(n - 1)
         \cup {Append(l, u) : l \in {x \in FoundLists(n - 1) : Len(x) = n - 1},
                              u \in Urls}

\* st.cache_resource keyed by the arguments: the object is a function of them
get_llm(model) == <<"ChatBedrock", model>>
get_tools(use_search) == IF use_search THEN <<"duckduckgo">> ELSE <<>>
AgentExecutor(llm, tools) == <<"AgentExecutor", llm, tools>>
ConversationChain(llm) == <<"ConversationChain", llm, <<>>>>

\* streamlit_aws_search.py, get_agent_executor: st.cache_resource leaves
\* out of its key every parameter whose name starts with an underscore, and
\* _llm and _tools are all its parameters, so one entry serves every call
\* until the cache is cleared
get_agent_executor(cached, llm, tools) ==
    IF cached # None THEN cached ELSE AgentExecutor(llm, tools)

\* 250602_streamlit_chat_app_aws_choose.py, get_agent_executor: built when
\* the session holds none
choose_get_agent_executor(session_executor, llm, tools) ==
    IF session_executor # None THEN session_executor
    ELSE AgentExecutor(llm, tools)

\* the executor a run of script ends up with, given the one kept so far
executor_for(script, kept, current) ==
    CASE script = "chat_app_aws" ->
             IF kept # None THEN kept
             ELSE ConversationChain(get_llm(current.model))
      [] script = "chat_app_aws_choose" ->
             choose_get_agent_executor(kept, get_llm(current.model),
                                       get_tools(current.use_search))
      [] script = "aws_search" ->
             get_agent_executor(kept, get_llm(current.model),
                                get_tools(current.use_search))
      [] script = "aws_search_claude" -> None

Range(list) == {list[i] : i \in 1..Len(list)}

add_urls_no_check(history, urls) == history \o urls

\* for url in urls_found_this_turn: if url not in history: append
RECURSIVE add_urls(_, _)
add_urls(history, urls) ==
    IF urls = <<>> THEN history
    ELSE add_urls(IF Head(urls) \in Range(history) THEN history
                  ELSE Append(history, Head(urls)),
                  Tail(urls))

\* the links the URL collection of a turn works on: the agent has search
\* steps only when its executor holds the search tool, and the choose script
\* collects only while the toggle is on (line 327)
links_of_turn(script, s, found_links) ==
    CASE script = "aws_search" ->
             IF s.agent_executor[3] # <<>> THEN found_links ELSE <<>>
      [] script = "chat_app_aws_choose" ->
             IF s.settings.use_search /\ s.agent_executor[3] # <<>>
             THEN found_links ELSE <<>>
      [] script = "chat_app_aws" -> <<>>

chat_turn_silent_failure(script, s, user_prompt, result, found_links) ==
    LET with_user == Append(s.messages, <<"user", user_prompt>>)
        request == <<user_prompt, s.memory, s.agent_executor>>
        ai_response == IF result[1] = "output" THEN result[2]
                       ELSE DefaultAnswer
        links == links_of_turn(script, s, found_links)
    IN IF IsException(result)
       THEN [s EXCEPT !.messages = with_user,
                      !.sent = request,
                      !.urls_found_this_turn = <<>>]
       ELSE [s EXCEPT !.messages = Append(with_user,
                                          <<"assistant", ai_response>>),
                      !.memory = s.memory \o <<<<"human", user_prompt>>,
                                               <<"ai", ai_response>>>>,
                      !.search_url_history = add_urls(s.search_url_history,
                                                      links),
                      !.sent = request,
                      !.urls_found_this_turn = links]

chat_turn_records_failure(script, s, user_prompt, result, found_links) ==
    LET with_user == Append(s.messages, <<"user", user_prompt>>)
        request == <<user_prompt, s.memory, s.agent_executor>>
        ai_response == IF result[1] = "output" THEN result[2]
                       ELSE DefaultAnswer
        links == links_of_turn(script, s, found_links)
    IN IF IsException(result)
       THEN [s EXCEPT !.messages = Append(with_user,
                                          <<"assistant", ErrorText>>),
                      !.memory = Append(s.memory, <<"human", user_prompt>>),
                      !.sent = request,
                      !.urls_found_this_turn = <<>>]
       ELSE [s EXCEPT !.messages = Append(with_user,
                                          <<"assistant", ai_response>>),
                      !.memory = s.memory \o <<<<"human", user_prompt>>,
                                               <<"ai", ai_response>>>>,
                      !.search_url_history = add_urls(s.search_url_history,
                                                      links),
                      !.sent = request,
                      !.urls_found_this_turn = links]

\* the chat input handler of the three LangChain scripts: the user entry,
\* the call with the memory's messages as chat history, then either the
\* answer (history, memory, URL list) or the error entry
chat_turn(script, s, user_prompt, result, found_links) ==
    LET with_user == Append(s.messages, <<"user", user_prompt>>)
        request == <<user_prompt, s.memory, s.agent_executor>>
        ai_response == IF result[1] = "output" THEN result[2]
                       ELSE DefaultAnswer
        links == links_of_turn(script, s, found_links)
    IN IF IsException(result)
       THEN [s EXCEPT !.messages = Append(with_user,
                                          <<"assistant", ErrorText>>),
                      !.sent = request,
                      !.urls_found_this_turn = <<>>]
       ELSE [s EXCEPT !.messages = Append(with_user,
                                          <<"assistant", ai_response>>),
                      !.memory = s.memory \o <<<<"human", user_prompt>>,
                                               <<"ai", ai_response>>>>,
                      !.search_url_history = add_urls(s.search_url_history,
                                                      links),
                      !.sent = request,
                      !.urls_found_this_turn = links]

\* streamlit_aws_search_claude.py, main, lines 297-325: the whole message
\* list goes to the model, and invoke_bedrock_model returns an error text
\* for every exception (a body without the text included)
bedrock_turn(s, user_prompt, result) ==
    LET with_user == Append(s.messages, <<"user", user_prompt>>)
        bedrock_response == IF result[1] = "output" THEN result[2]
                            ELSE ErrorText
    IN [s EXCEPT !.messages = Append(with_user,
                                     <<"assistant", bedrock_response>>),
                 !.sent = <<user_prompt, s.messages, s.settings.model>>,
                 !.urls_found_this_turn = <<>>]

reset_chat_keeps_memory(script, s) ==
    [s EXCEPT !.messages = <<>>,
              !.search_url_history = <<>>,
              !.agent_executor = executor_for(script, None, s.settings)]

\* the reset button and the run st.rerun() starts: the lists are emptied,
\* the memory (the chain, in the first script) is dropped and made anew,
\* and the executor is dropped (its cache cleared) and built again
reset_chat(script, s) ==
    [s EXCEPT !.messages = <<>>,
              !.search_url_history = <<>>,
              !.memory = <<>>,
              !.agent_executor = executor_for(script, None, s.settings)]

\* a changed sidebar widget and the run it starts; on_settings_change of
\* the choose script deletes the session's executor first
change_settings(script, s, new_settings) ==
    [s EXCEPT !.settings = new_settings,
              !.agent_executor =
                  executor_for(script,
                               IF script = "chat_app_aws_choose" THEN None
                               ELSE s.agent_executor,
                               new_settings)]

ChatInit ==
    /\ chat_app \in ChatApps
    /\ messages = <<>>
    /\ memory = <<>>
    /\ search_url_history = <<>>
    /\ settings = DefaultSettings(chat_app)
    /\ agent_executor = executor_for(chat_app, None, DefaultSettings(chat_app))
    /\ sent = None
    /\ urls_found_this_turn = <<>>
    /\ chat_event = "start"
    /\ after_reset = FALSE
    /\ ExtractIdle
    /\ PromptIdle
    /\ AppIdle
    /\ RockyIdle

ChatSession ==
    [messages |-> messages,
     memory |-> memory,
     search_url_history |-> search_url_history,
     settings |-> settings,
     agent_executor |-> agent_executor,
     sent |-> sent,
     urls_found_this_turn |-> urls_found_this_turn]

ChatSettle(s, event) ==
    /\ messages' = s.messages
    /\ memory' = s.memory
    /\ search_url_history' = s.search_url_history
    /\ settings' = s.settings
    /\ agent_executor' = s.agent_executor
    /\ sent' = s.sent
    /\ urls_found_this_turn' = s.urls_found_this_turn
    /\ chat_event' = event
    /\ after_reset' = (event = "reset" \/ (event = "settings" /\ after_reset))
    /\ UNCHANGED <<chat_app, extVars, promptVars, appVars, rockyVars>>

ChatTurn ==
    /\ chat_app \in ChatApps \ {"aws_search_claude"}
    /\ Len(messages) < 2 * MaxTurns
    /\ \E user_prompt \in UserPrompts, result \in ChatResults,
          found_links \in FoundLists(MaxFound) :
          ChatSettle(chat_turn(chat_app, ChatSession, user_prompt, result,
                               found_links), "turn")

BedrockTurn ==
    /\ chat_app = "aws_search_claude"
    /\ Len(messages) < 2 * MaxTurns
    /\ \E user_prompt \in UserPrompts, result \in ChatResults :
          ChatSettle(bedrock_turn(ChatSession, user_prompt, result), "turn")

ResetChat ==
    /\ chat_app \in ChatApps
    /\ ChatSettle(reset_chat(chat_app, ChatSession), "reset")

ChangeSettings ==
    /\ chat_app \in ChatApps
    /\ \E new_settings \in SettingsOf(chat_app) :
          /\ new_settings # settings
          /\ ChatSettle(change_settings(chat_app, ChatSession, new_settings),
                        "settings")

ChatNext ==
    \/ ChatTurn
    \/ BedrockTurn
    \/ ResetChat
    \/ ChangeSettings

SpecChat == ChatInit /\ [][ChatNext]_vars

\* ------------------------------------------------------------ properties
\* p is t with its leading and trailing whitespace removed
IsTrimOf(p, t) ==
    \E a \in 0..Len(t), b \in 0..Len(t) :
        /\ a + b <= Len(t)
        /\ p = SubSeq(t, a + 1, Len(t) - b)
        /\ \A i \in 1..a : isspace(t[i])
        /\ \A i \in (Len(t) - b + 1)..Len(t) : isspace(t[i])
        /\ p = <<>> \/ (~isspace(p[1]) /\ ~isspace(p[Len(p)]))

\* the text after the first tagged fence of t, up to the next fence after
\* it (up to the end of t when no fence follows)
AfterFirstTag(t) ==
    LET rest == SubSeq(t, Find(t, TaggedFence) + Len(TaggedFence), Len(t))
        close == Find(rest, Fence)
    IN IF close = 0 THEN rest ELSE SubSeq(rest, 1, close - 1)

\* the positions, in t.split(fence), of the texts that lie inside a fenced
\* block and contain the prefix: the segments after an odd number of fences
FencedWithPrefix(t) ==
    {i \in 1..Len(split(t, Fence)) :
        i % 2 = 0 /\ Contains(split(t, Fence)[i], Prefix)}

\* C1: for every response that contains the tagged fence, extract_dot_code
\* returns the trimmed text between the first tagged fence and the next
\* fence after it, whatever else the response contains.
C1_TaggedFenceDecides ==
    (epc = "extracted" /\ Contains(response, TaggedFence))
        => IsTrimOf(extracted, AfterFirstTag(response))

\* C2: for every response without a tagged fence that contains a fence and
\* the prefix, extract_dot_code returns the trimmed interior of a fenced
\* block that contains the prefix, never text from outside the fences.
C2_Rule2ReturnsFencedInterior ==
    (/\ epc = "extracted"
     /\ ~Contains(response, TaggedFence)
     /\ Contains(response, Fence)
     /\ Contains(response, Prefix))
        => \E i \in FencedWithPrefix(response) :
               IsTrimOf(extracted, split(response, Fence)[i])

\* C3: for every response with no fence that contains the prefix, the
\* payload (of extract_dot_code and of the inline extraction) is the
\* trimmed text from the first occurrence of the prefix onward, so it
\* starts with the prefix.
C3_Rule3FromPrefixOnward ==
    (/\ epc \in {"extracted", "inline"}
     /\ ~Contains(response, Fence)
     /\ Contains(response, Prefix))
        => /\ IsTrimOf(extracted,
                       SubSeq(response, Find(response, Prefix), Len(response)))
           /\ startswith(extracted, Prefix)

\* C4: whenever an extraction reports a payload (a value other than None),
\* the payload is a non-empty contiguous part of the response.
C4_PayloadNonEmptySubstring ==
    (epc \in {"extracted", "inline"} /\ extracted # None)
        => /\ extracted # <<>>
           /\ \E i \in 1..Len(response) :
                  SubSeq(response, i, i + Len(extracted) - 1) = extracted

\* C5: extract_dot_code raises no exception on any response, and returns
\* None for every response with neither a fence nor the prefix.
C5_NotFoundIsNone ==
    epc = "extracted"
        => /\ ~IsException(extracted)
           /\ (~Contains(response, Fence) /\ ~Contains(response, Prefix))
                  => extracted = None

C5_Witness ==
    /\ epc = "extracted"
    /\ Len(response) >= 3
    /\ ~Contains(response, Fence)
    /\ ~Contains(response, Prefix)
    /\ extracted = None

\* C6 as stated: extracting from the tagged fenced block around X, X having
\* no fence, returns exactly X.
C6_RoundTripExact ==
    (epc = "extracted" /\ wrapped # None) => extracted = wrapped

\* C6 as amended: extracting from the tagged fenced block around X returns X
\* without its leading and trailing whitespace, never None; it returns
\* exactly X when X neither starts nor ends with whitespace.
C6_RoundTripTrimmed ==
    (epc = "extracted" /\ wrapped # None)
        => /\ extracted # None
           /\ IsTrimOf(extracted, wrapped)
           /\ (wrapped = <<>> \/ (~isspace(wrapped[1])
                                  /\ ~isspace(wrapped[Len(wrapped)])))
                  => extracted = wrapped

C6_Witness ==
    /\ epc = "extracted"
    /\ wrapped # None
    /\ Len(wrapped) >= 3
    /\ isspace(wrapped[1])
    /\ Contains(wrapped, Prefix)
    /\ extracted # wrapped
    /\ extracted # <<>>

\* C7: a payload returned by extract_dot_code that has no fence and starts
\* with the prefix is returned unchanged when it is extracted again.
C7_ReExtractionIsIdentity ==
    (/\ epc = "reextracted"
     /\ ~Contains(extracted, Fence)
     /\ startswith(extracted, Prefix))
        => reextracted = extracted

C7_Witness ==
    /\ epc = "reextracted"
    /\ ~Contains(extracted, Fence)
    /\ startswith(extracted, Prefix)
    /\ Len(extracted) >= 2
    /\ Contains(response, Fence)
    /\ reextracted = extracted

\* C8: when the response has several fenced blocks, extract_dot_code returns
\* the first block of the winning rule only: the first tagged block under
\* rule 1, the first fenced block that contains the prefix under rule 2.
C8_FirstMatchingBlockOnly ==
    (epc = "extracted" /\ Len(split(response, Fence)) >= 4)
        => IF Contains(response, TaggedFence)
           THEN IsTrimOf(extracted, AfterFirstTag(response))
           ELSE Contains(response, Prefix)
                  => /\ FencedWithPrefix(response) # {}
                     /\ \E i \in FencedWithPrefix(response) :
                           /\ \A j \in FencedWithPrefix(response) : i <= j
                           /\ IsTrimOf(extracted, split(response, Fence)[i])

\* C9: every prompt builder returns a text that contains each supplied
\* non-empty field value verbatim.
C9_FieldsInterpolated ==
    (/\ ppc = "built"
     /\ \A k \in DOMAIN fields : fields[k] # None /\ fields[k] # <<>>)
        => \A k \in DOMAIN fields : Contains(prompt, fields[k])

C9_Witness ==
    /\ ppc = "built"
    /\ task = "generate"
    /\ Len(fields.product_name) = 2
    /\ fields.failure_mode # None
    /\ fields.failure_mode # <<>>
    /\ ~Contains(fields.failure_mode, fields.product_name)
    /\ Contains(prompt, fields.product_name)

Directive ==
    <<DF, SP, "{", SP, "...", SP, "}", SP, "only_dot_code_starting_so">>

\* the lines of t that are not blank, in order
NonBlankLines(t) ==
    SelectSeq(split(t, <<NL>>), LAMBDA line : strip(line) # <<>>)

\* C11 as stated: every prompt built for a diagram task ends with the
\* directive: the directive is the last non-blank line of the prompt.
C11_DirectiveIsLastLine ==
    (ppc = "built" /\ task \in {"generate", "generate_gemini", "modify"})
        => /\ NonBlankLines(prompt) # <<>>
           /\ Contains(NonBlankLines(prompt)[Len(NonBlankLines(prompt))],
                       Directive)

\* C11 as amended: every prompt built for a diagram task has the directive
\* among its closing lines: it is the last non-blank line of both
\* create_fishbone_prompt templates, and the third-last non-blank line of
\* create_modification_prompt, where two more instruction lines follow it;
\* no field value comes after it.
C11_DirectiveClosesPrompt ==
    (ppc = "built" /\ task \in {"generate", "generate_gemini", "modify"})
        => LET lines == NonBlankLines(prompt)
               after == IF task = "modify" THEN 2 ELSE 0
           IN /\ Len(lines) > after
              /\ Contains(lines[Len(lines) - after], Directive)
              /\ \A i \in (Len(lines) - after + 1)..Len(lines) :
                     /\ ~Contains(lines[i], Directive)
                     /\ \A j \in 1..Len(lines[i]) : lines[i][j] \notin FieldChars

C11_Witness ==
    /\ ppc = "built"
    /\ task = "modify"
    /\ Len(fields.current_dot_code) = 2
    /\ Len(fields.modification_request) = 2
    /\ Len(NonBlankLines(prompt)) >= 3
    /\ ~Contains(NonBlankLines(prompt)[Len(NonBlankLines(prompt))], Directive)

\* C12: in the AWS fishbone app the modification form is on the page only
\* while the stored diagram is the non-empty payload of the latest
\* extraction that found one, and every press of the apply button works on
\* that payload: it is the diagram given to create_modification_prompt.
C12_ModifyChainsLatestPayload ==
    [][(app = "aws" /\ task' = "modify")
        => /\ truthy(session_state.dot_code)
           /\ session_state.dot_code = latest_payload
           /\ fields'.current_dot_code = latest_payload
           /\ prompt' # None
                => prompt' = create_modification_prompt(
                                 latest_payload, fields'.modification_request)]_vars

C12_Witness ==
    /\ app = "aws"
    /\ task = "modify"
    /\ llm_calls = 1
    /\ truthy(extracted)
    /\ session_state.dot_code = extracted
    /\ truthy(fields.current_dot_code)
    /\ fields.current_dot_code # extracted
    /\ Contains(prompt, fields.current_dot_code)

\* C13: a button press calls the LLM at most once, and a press whose call
\* raised, or whose response gave no payload, has reported the failure.
C13_AtMostOneCall ==
    /\ llm_calls <= 1
    /\ (llm_calls >= 1 /\ IsException(response))
           => shown \cap {"error_generation_failed", "error_modification_failed",
                          "error_reply_failed"} # {}
    /\ (/\ llm_calls >= 1
        /\ app = "aws"
        /\ ~IsException(response)
        /\ ~(hasattr_content(response) /\ truthy(extract_dot_code(response))))
           => shown \cap {"error_response_format", "error_no_dot_code"} # {}
    /\ (/\ llm_calls >= 1
        /\ app = "gemini"
        /\ ~IsException(response)
        /\ ~(hasattr_content(response) /\ inline_dot_code(response) # None))
           => shown \cap {"error_response_format", "error_no_dot_code"} # {}

C13_Witness ==
    /\ app = "aws"
    /\ task = "generate"
    /\ llm_calls = 1
    /\ hasattr_content(response)
    /\ ~IsException(response)
    /\ Len(response) >= 2
    /\ extract_dot_code(response) = None
    /\ "error_no_dot_code" \in shown

\* C14: a generate press with an empty product name or failure mode builds
\* no prompt, calls no LLM and leaves dot_code and the two display fields
\* as they were, showing only the warning; an apply press with an empty
\* request calls no LLM and leaves dot_code as it was.
C14_EmptyInputChangesNothing ==
    [][/\ (/\ task' \in {"generate", "generate_gemini"}
           /\ (fields'.product_name = <<>> \/ fields'.failure_mode = <<>>))
              => /\ prompt' = None
                 /\ llm_calls' = 0
                 /\ session_state' = session_state
                 /\ shown' = {"warning_enter_both_fields"}
       /\ (task' = "modify" /\ fields'.modification_request = <<>>)
              => /\ llm_calls' = 0
                 /\ session_state'.dot_code = session_state.dot_code]_vars

C14_Witness ==
    /\ app = "aws"
    /\ task = "generate"
    /\ fields.product_name # <<>>
    /\ fields.failure_mode = <<>>
    /\ llm_calls = 0
    /\ truthy(session_state.dot_code)
    /\ truthy(session_state.product_name_display)
    /\ shown = {"warning_enter_both_fields"}

\* C15: in both fishbone apps a generate press whose response gives a
\* non-empty payload that does not start with the prefix shows the format
\* warning and stores the payload as the diagram; the press is rejected as
\* having no DOT code only when the response gives no payload.
C15_WarnAndStore ==
    (/\ task \in {"generate", "generate_gemini"}
     /\ llm_calls >= 1
     /\ ~IsException(response)
     /\ hasattr_content(response))
        => LET payload == IF app = "aws" THEN extract_dot_code(response)
                          ELSE inline_dot_code(response)
           IN /\ (truthy(payload) /\ ~startswith(payload, Prefix))
                    => /\ "warning_format" \in shown
                       /\ session_state.dot_code = payload
              /\ "error_no_dot_code" \in shown => ~truthy(payload)

C15_Witness ==
    /\ app = "gemini"
    /\ task = "generate_gemini"
    /\ llm_calls = 1
    /\ ~Contains(response, Fence)
    /\ truthy(session_state.dot_code)
    /\ ~startswith(session_state.dot_code, Prefix)
    /\ "warning_format" \in shown

\* C16: in both simulation scripts a session that launch_rocky returned is
\* closed exactly once by the time the function has ended, however it ended;
\* no session is closed twice, and nothing is closed when launch_rocky
\* returned no session.
C16_SessionClosedOnce ==
    entry # "none"
        => /\ closed <= 1
           /\ rocky = None => closed = 0
           /\ (rocky # None /\ rpc \in {"done", "returned", "evaluated",
                                        "aborted"})
                  => closed = 1

C16_Witness ==
    /\ entry = "simulation_test2"
    /\ rpc = "returned"
    /\ rocky = Session
    /\ IsException(outcome)
    /\ "StartSimulation" \in api_calls
    /\ "GetCurve" \notin api_calls
    /\ closed = 1

\* C17: objective_function lets no exception of the simulation function
\* through: it returns the penalty 1e10 when the simulation function raised
\* and the squared difference between the result and the target otherwise,
\* so gp_minimize is never ended by an exception and stops only after
\* n_calls evaluations.
C17_PenaltyInsteadOfException ==
    entry = "simulation_test2"
        => /\ rpc # "aborted"
           /\ ~IsException(objective_value)
           /\ n_evals <= n_calls
           /\ rpc = "done" => n_evals = n_calls
           /\ (rpc = "evaluated" /\ IsException(outcome))
                  => objective_value = <<"return", penalty>>
           /\ (rpc = "evaluated" /\ ~IsException(outcome))
                  => \E d \in -MaxDeviation..MaxDeviation :
                        /\ outcome[2] = EXPERIMENTAL_TARGET_VALUE + d
                        /\ objective_value = <<"return", <<d * d, 0>>>>

C17_Witness ==
    /\ entry = "simulation_test2"
    /\ rpc = "evaluated"
    /\ n_evals = 2
    /\ IsException(outcome)
    /\ objective_value = <<"return", penalty>>
    /\ closed = 1

\* C18: when the project of simulation_test.main has no element named Drum,
\* SetValue, SaveProject and StartSimulation are never called, and main ends
\* by returning, with the error printed and the session it launched closed.
C18_MissingDrumStopsRun ==
    (entry = "simulation_test" /\ ~project_has_drum)
        => /\ api_calls \cap {"SetValue", "SaveProject", "StartSimulation"} = {}
           /\ rpc = "done"
                  => /\ outcome = ReturnedNone
                     /\ \E e \in {DrumNotFound, ApiError} :
                           <<"An error occurred", e>> \in printed
                     /\ rocky # None => closed = 1
           /\ (rpc = "done" /\ drum_geometry = None /\ "GetElement" \in api_calls
                            /\ <<"An error occurred", ApiError>> \notin printed)
                  => /\ <<"An error occurred", DrumNotFound>> \in printed
                     /\ closed = 1

C18_Witness ==
    /\ entry = "simulation_test"
    /\ ~project_has_drum
    /\ rpc = "done"
    /\ "GetElement" \in api_calls
    /\ <<"An error occurred", DrumNotFound>> \in printed
    /\ outcome = ReturnedNone
    /\ closed = 1

\* C23: in the mail app the copy button is on the page exactly when the
\* stored reply is non-empty and is not the error sentinel; a press with an
\* empty mail calls no LLM and stores the empty string, a press whose call
\* raised stores the sentinel, and neither leaves the copy button on the page.
C23_CopyOfferedForRealReply ==
    app = "mail"
        => LET reply == session_state.reply_email_output
           IN /\ "copy_reply_btn" \in shown
                    <=> (reply \notin {<<>>, Unset} /\ reply # ErrorSentinel)
              /\ (task = "reply" /\ fields.original_email_text = <<>>)
                    => /\ llm_calls = 0
                       /\ reply = <<>>
                       /\ "copy_reply_btn" \notin shown
              /\ (task = "reply" /\ IsException(response))
                    => /\ reply = ErrorSentinel
                       /\ "copy_reply_btn" \notin shown

C23_Witness ==
    /\ app = "mail"
    /\ task = "reply"
    /\ fields.original_email_text # <<>>
    /\ IsException(response)
    /\ session_state.reply_email_output = ErrorSentinel
    /\ "error_reply_failed" \in shown
    /\ "copy_reply_btn" \notin shown

\* C19: in the AWS fishbone app, after a generate press with both fields
\* filled, dot_code is the non-empty payload of this press's response, or
\* None when the call raised, the response had no content or no payload was
\* found; dot_code is never the empty string.
C19_FailedGenerationClears ==
    app = "aws"
        => /\ session_state.dot_code # <<>>
           /\ (task = "generate" /\ truthy(fields.product_name)
                                 /\ truthy(fields.failure_mode))
                  => IF /\ ~IsException(response)
                        /\ hasattr_content(response)
                        /\ truthy(extract_dot_code(response))
                     THEN session_state.dot_code = extract_dot_code(response)
                     ELSE session_state.dot_code = None

C19_Witness ==
    /\ app = "aws"
    /\ task = "generate"
    /\ llm_calls = 1
    /\ truthy(latest_payload)
    /\ hasattr_content(response)
    /\ ~IsException(response)
    /\ session_state.dot_code = None

\* C20: whenever an apply press extracts code that does not start with the
\* prefix, the warning that the modified code may not have the expected
\* format is shown.
C20_ModifiedFormatWarning ==
    (/\ app = "aws"
     /\ task = "modify"
     /\ llm_calls >= 1
     /\ ~IsException(response)
     /\ hasattr_content(response)
     /\ truthy(extract_dot_code(response))
     /\ ~startswith(extract_dot_code(response), Prefix))
        => "warning_modified_format" \in shown

\* C21: a press of the reset button leaves the message list, the searched-URL
\* list and the conversation memory empty, and the first chat turn after a
\* reset (settings changes in between or not) goes to the model with an empty
\* chat history, whatever was said before the reset.
C21_ResetForgetsConversation ==
    [][/\ chat_event' = "reset"
            => /\ messages' = <<>>
               /\ search_url_history' = <<>>
               /\ memory' = <<>>
       /\ (after_reset /\ chat_event' = "turn") => sent'[2] = <<>>]_vars

C21_Witness ==
    /\ chat_event = "reset"
    /\ after_reset
    /\ sent # None
    /\ sent[2] # <<>>
    /\ messages = <<>>
    /\ memory = <<>>

\* C22: in streamlit_aws_search.py every chat turn is answered by an agent
\* executor built from the LLM and the tool list of the settings selected at
\* that turn. (st.cache_resource leaves the underscore parameters _llm and
\* _tools out of its key, so the executor of the first call answers until
\* the reset button clears the cache.)
C22_ExecutorFollowsSettings ==
    (chat_app = "aws_search" /\ chat_event = "turn")
        => sent[3] = AgentExecutor(get_llm(settings.model),
                                   get_tools(settings.use_search))

\* C24: in every chat app the message list alternates user, assistant, user,
\* assistant from its first entry, and a processed user input appends exactly
\* the user entry with the typed text and one assistant entry after it, the
\* answer or an error text, whether the call succeeded or raised.
C24_MessagesAlternate ==
    [][/\ \A i \in 1..Len(messages') :
              messages'[i][1] = IF i % 2 = 1 THEN "user" ELSE "assistant"
       /\ Len(messages') % 2 = 0
       /\ chat_event' = "turn"
            => /\ Len(messages') = Len(messages) + 2
               /\ SubSeq(messages', 1, Len(messages)) = messages
               /\ messages'[Len(messages) + 1] = <<"user", sent'[1]>>
               /\ messages'[Len(messages) + 2][2]
                      \in {"r", DefaultAnswer, ErrorText}]_vars

C24_Witness ==
    /\ chat_event = "turn"
    /\ Len(messages) = 4
    /\ messages[2] = <<"assistant", ErrorText>>
    /\ messages[3][1] = "user"
    /\ messages[4] = <<"assistant", "r">>

\* the memory entries a message list accounts for: a human and an ai message
\* for every user entry whose assistant entry is not the error text
RECURSIVE AnsweredTurns(_)
AnsweredTurns(list) ==
    IF Len(list) < 2 THEN <<>>
    ELSE (IF list[2][2] = ErrorText THEN <<>>
          ELSE <<<<"human", list[1][2]>>, <<"ai", list[2][2]>>>>)
         \o AnsweredTurns(SubSeq(list, 3, Len(list)))

\* a step of an agent chat app keeps the memory equal to the answered turns
\* of the message list, sends the memory of before the turn as chat history,
\* and leaves the memory alone when the turn ends in the error entry
MemoryStep ==
    chat_app \in AgentApps
        => /\ memory' = AnsweredTurns(messages')
           /\ chat_event' = "turn"
                => /\ sent'[2] = memory
                   /\ messages'[Len(messages')][2] = ErrorText
                          => /\ memory' = memory
                             /\ messages'[Len(messages') - 1]
                                    = <<"user", sent'[1]>>

\* C25: in the two agent chat apps the conversation memory holds, in turn
\* order, exactly the user message and the AI message of every answered turn
\* since the last reset; a turn whose invocation raised shows its user entry
\* and an error entry but leaves the memory as it was, and every turn sends
\* the memory as it stood before the turn as its chat history.
C25_MemoryHoldsAnsweredTurns == [][MemoryStep]_vars

C25_Witness ==
    /\ chat_app \in AgentApps
    /\ chat_event = "turn"
    /\ Len(messages) = 4
    /\ messages[1] = <<"user", "p">>
    /\ messages[2] = <<"assistant", ErrorText>>
    /\ messages[3] = <<"user", "q">>
    /\ memory = <<<<"human", "q">>, <<"ai", "r">>>>
    /\ sent[2] = <<>>

FirstIndex(list, url) ==
    CHOOSE i \in 1..Len(list) :
        list[i] = url /\ \A j \in 1..(i - 1) : list[j] # url

\* a step of an agent chat app leaves the URL list without repetition; unless
\* it is a reset the old list is a prefix of the new one; a turn adds the
\* links it found that were not listed, in the order of their first finding;
\* and no other step changes the list
UrlHistoryStep ==
    chat_app \in AgentApps
        => LET old == search_url_history
               new == search_url_history'
               added == SubSeq(new, Len(old) + 1, Len(new))
               found == urls_found_this_turn'
           IN /\ \A i, j \in 1..Len(new) : new[i] = new[j] => i = j
              /\ chat_event' # "reset"
                    => /\ Len(old) <= Len(new)
                       /\ SubSeq(new, 1, Len(old)) = old
              /\ chat_event' = "reset" => new = <<>>
              /\ chat_event' = "turn"
                    => /\ Range(added) = Range(found) \ Range(old)
                       /\ \A i, j \in 1..Len(added) :
                              i < j => FirstIndex(found, added[i])
                                           < FirstIndex(found, added[j])
              /\ new # old => chat_event' \in {"turn", "reset"}

\* C26: in both agent chat apps search_url_history never holds a URL twice,
\* only grows between resets without removing or reordering entries, lists
\* URLs in the order they were first seen, and is changed only by a chat turn
\* or by a reset.
C26_UrlHistoryGrowsWithoutRepeats == [][UrlHistoryStep]_vars

C26_Witness ==
    /\ chat_app \in AgentApps
    /\ chat_event = "turn"
    /\ Len(messages) = 4
    /\ urls_found_this_turn = <<"u1", "u2">>
    /\ search_url_history = <<"u2", "u1">>

====
